---- MODULE Spec2Model ----
(***************************************************************************)
(* Claudie secret -> SveltosCluster controller                             *)
(* (internal/controller/secret_controller.go).                             *)
(*                                                                         *)
(* The state is the resource store (Secrets and SveltosClusters), the      *)
(* reconciler's SecretToCluster map with its mutex, one Reconcile pass per *)
(* secret key (the work queue never runs one key twice at the same time),  *)
(* and the cleanStaleSveltosCluster background loop.  Every store call and *)
(* every access to the map is one step, so passes and the loop interleave  *)
(* at exactly the places where the code touches shared state.              *)
(***************************************************************************)
EXTENDS Naturals, Sequences, FiniteSets, TLC

(***************************************************************************)
(* Bounds of the model.                                                    *)
(***************************************************************************)
\* how many times the environment (the provisioning tool, other actors on
\* SveltosClusters, a process restart) acts after the initial state
MaxEnvSteps == 1

(***************************************************************************)
(* Program constants.                                                      *)
(***************************************************************************)
claudieLabel == "app.kubernetes.io/part-of"
claudieKubeconfig == "claudie.io/output"
claudieCluster == "claudie.io/cluster"
sveltosClusterClaudieAnnotation == "projectsveltos.io/claudie"
\* normalRequeueAfter, in seconds
normalRequeueAfter == 10
\* Kind and APIVersion the Secret type answers from GetObjectKind()
SecretKind == "Secret"
SecretAPIVersion == "v1"

(***************************************************************************)
(* The universe of names.                                                  *)
(***************************************************************************)
Namespaces == {"ns"}
SecretNames == {"s1", "s2"}
ClusterNames == {"c1", "c2"}

NamespacedName(ns, n) == [namespace |-> ns, name |-> n]
SecretKeys == {NamespacedName(ns, n) : ns \in Namespaces, n \in SecretNames}
ClusterKeys == {NamespacedName(ns, n) : ns \in Namespaces, n \in ClusterNames}
\* the order in which List returns SveltosClusters (by key)
ClusterKeySeq == <<NamespacedName("ns", "c1"), NamespacedName("ns", "c2")>>

\* "no object": a nil pointer, an unset local variable, the free mutex
Nil == [nil |-> TRUE]

(***************************************************************************)
(* Go maps, as functions on the set of present keys.                       *)
(***************************************************************************)
Has(m, k) == k \in DOMAIN m
Put(m, k, v) == [x \in (DOMAIN m) \cup {k} |-> IF x = k THEN v ELSE m[x]]
Del(m, k) == [x \in (DOMAIN m) \ {k} |-> m[x]]
EmptyMap == << >>

(***************************************************************************)
(* Objects.                                                                *)
(***************************************************************************)
ObjKey(o) == NamespacedName(o.namespace, o.name)

OwnerReference(apiVersion, kind, n) ==
    [apiVersion |-> apiVersion, kind |-> kind, name |-> n]

\* the three labels of a Claudie kubeconfig secret for cluster c
FullLabels(c) ==
    Put(Put(Put(EmptyMap, claudieLabel, "claudie"), claudieKubeconfig, "kubeconfig"),
        claudieCluster, c)
\* two of the three labels: the content-kind label is missing
TwoLabels(c) == Put(Put(EmptyMap, claudieLabel, "claudie"), claudieCluster, c)

\* the label sets a secret is given: the first secret names either cluster or
\* lacks a label, the second one names the cluster the first one may name too
SecretLabelSets(k) ==
    IF k.name = "s1"
    THEN {FullLabels(c) : c \in ClusterNames} \cup {TwoLabels("c1")}
    ELSE {FullLabels("c1")}

Secret(k, labels, dt) ==
    [namespace |-> k.namespace, name |-> k.name, labels |-> labels,
     deletionTimestamp |-> dt]

SveltosCluster(k, kubeconfigName, labels, annotations, owners, dt) ==
    [namespace |-> k.namespace, name |-> k.name,
     kubeconfigName |-> kubeconfigName, labels |-> labels,
     annotations |-> annotations, ownerReferences |-> owners,
     deletionTimestamp |-> dt]

ClaudieAnnotations == Put(EmptyMap, sveltosClusterClaudieAnnotation, "ok")
UserLabels == Put(EmptyMap, "env", "prod")
UserAnnotations == Put(EmptyMap, "team", "infra")
SecretOwner(n) == <<OwnerReference(SecretAPIVersion, SecretKind, n)>>
OtherOwner == <<OwnerReference("v1", "ConfigMap", "cm")>>

\* what an earlier run of this controller left in the store for secret s1
LeftBehind(k) == SveltosCluster(k, "s1", EmptyMap, ClaudieAnnotations, SecretOwner("s1"), 0)

\* SveltosClusters that exist without this process having written them: left
\* behind by an earlier run; the same while being deleted; registered by a user
\* without the annotation; carrying the annotation without an owner of kind
\* Secret
ForeignClusters(k) ==
    IF k.name = "c1"
    THEN { LeftBehind(k),
           [LeftBehind(k) EXCEPT !.deletionTimestamp = 1],
           SveltosCluster(k, "ext", UserLabels, UserAnnotations, SecretOwner("s1"), 0),
           SveltosCluster(k, "ext", UserLabels, ClaudieAnnotations, OtherOwner, 0) }
    ELSE { LeftBehind(k) }

(***************************************************************************)
(* Pure functions of the controller.                                       *)
(***************************************************************************)
\* shouldReconcileSecret: nil labels are the empty map here
\* a variant that does not look at the claudie.io/output label
shouldReconcileSecret_withoutKubeconfig(secret) ==
    /\ Has(secret.labels, claudieLabel)
    /\ Has(secret.labels, claudieCluster)

\* a variant that takes a label with an empty value for a missing one
shouldReconcileSecret_nonEmpty(secret) ==
    /\ Has(secret.labels, claudieLabel) /\ secret.labels[claudieLabel] # ""
    /\ Has(secret.labels, claudieKubeconfig) /\ secret.labels[claudieKubeconfig] # ""
    /\ Has(secret.labels, claudieCluster) /\ secret.labels[claudieCluster] # ""

shouldReconcileSecret(secret) ==
    /\ Has(secret.labels, claudieLabel)
    /\ Has(secret.labels, claudieKubeconfig)
    /\ Has(secret.labels, claudieCluster)

\* a Go map read: the zero value for a missing key
getSveltosClusterName(secret) ==
    IF Has(secret.labels, claudieCluster) THEN secret.labels[claudieCluster] ELSE ""

getSveltosClusterNamespace(secret) == secret.namespace

addAnnotation(sveltosCluster) ==
    [sveltosCluster EXCEPT
        !.annotations = Put(@, sveltosClusterClaudieAnnotation, "ok")]

\* a variant that appends the reference without looking for an existing one
addOwnerReference_always(sveltosCluster, secret) ==
    [sveltosCluster EXCEPT
        !.ownerReferences =
            Append(@, OwnerReference(SecretAPIVersion, SecretKind, secret.name))]

\* a variant in which an owner of kind Secret is taken for this secret whatever its name
addOwnerReference_kindOnly(sveltosCluster, secret) ==
    IF \E i \in 1..Len(sveltosCluster.ownerReferences) :
          sveltosCluster.ownerReferences[i].kind = SecretKind
    THEN sveltosCluster
    ELSE [sveltosCluster EXCEPT
            !.ownerReferences =
                Append(@, OwnerReference(SecretAPIVersion, SecretKind, secret.name))]

addOwnerReference(sveltosCluster, secret) ==
    IF \E i \in 1..Len(sveltosCluster.ownerReferences) :
          /\ sveltosCluster.ownerReferences[i].kind = SecretKind
          /\ sveltosCluster.ownerReferences[i].name = secret.name
    THEN sveltosCluster
    ELSE [sveltosCluster EXCEPT
            !.ownerReferences =
                Append(@, OwnerReference(SecretAPIVersion, SecretKind, secret.name))]

\* the object createSveltosCluster builds when the Get answered not-found
newSveltosCluster(secret) ==
    addOwnerReference(
        addAnnotation(
            SveltosCluster(
                NamespacedName(getSveltosClusterNamespace(secret),
                               getSveltosClusterName(secret)),
                secret.name, EmptyMap, EmptyMap, << >>, 0)),
        secret)

\* a variant that sends to Update the object a create would build
updatedSveltosCluster_rebuilt(current, secret) ==
    newSveltosCluster(secret)

\* the object createSveltosCluster sends to Update when the Get found one
updatedSveltosCluster(current, secret) ==
    addOwnerReference(addAnnotation(current), secret)

isSveltosClusterForClaudie(sveltosCluster) ==
    Has(sveltosCluster.annotations, sveltosClusterClaudieAnnotation)

\* index of the first owner reference of kind Secret, 0 when there is none
FirstSecretOwner(refs) ==
    IF \E i \in 1..Len(refs) : refs[i].kind = "Secret"
    THEN CHOOSE i \in 1..Len(refs) :
            /\ refs[i].kind = "Secret"
            /\ \A j \in 1..(i - 1) : refs[j].kind # "Secret"
    ELSE 0

\* getClaudieSecret: Nil is the nil pointer
getClaudieSecret(sveltosCluster) ==
    IF FirstSecretOwner(sveltosCluster.ownerReferences) = 0
    THEN Nil
    ELSE NamespacedName(
            sveltosCluster.namespace,
            sveltosCluster.ownerReferences[
                FirstSecretOwner(sveltosCluster.ownerReferences)].name)

(***************************************************************************)
(* State.                                                                  *)
(***************************************************************************)
VARIABLES
    secrets,          \* the store: Secret objects by key
    clusters,         \* the store: SveltosCluster objects by key
    SecretToCluster,  \* SecretReconciler.SecretToCluster
    Mux,              \* SecretReconciler.Mux: Nil, or the key whose pass holds it
    queue,            \* secret keys waiting for a Reconcile pass
    pc,               \* per secret key: where its Reconcile pass stands
    sec,              \* per secret key: the secret the pass fetched
    sc,               \* per secret key: the SveltosCluster the pass holds
    fresh,            \* per secret key: sc is still the stored version
    result,           \* per secret key: how the last pass ended
    spc,              \* cleanStaleSveltosCluster: where the loop stands
    items,            \* cleanStaleSveltosCluster: sveltosClusters.Items
    si,               \* cleanStaleSveltosCluster: the loop index i (from 1)
    call,             \* the store call the last step made (NoCall: none)
    flaky,            \* store calls may fail with an error (never changes)
    envSteps          \* environment steps taken

store == <<secrets, clusters>>
reconciler == <<SecretToCluster, Mux, queue, pc, sec, sc, fresh, result>>
sweeper == <<spc, items, si>>
vars == <<secrets, clusters, SecretToCluster, Mux, queue, pc, sec, sc, fresh,
          result, spc, items, si, call, flaky, envSteps>>

\* A store call: who made it (the key of the pass, or Sweeper), the operation
\* ("get_secret", "get_cluster", "create", "update", "delete", "list"), the key
\* of the object and the answer: "ok", "notfound", "alreadyexists", "conflict",
\* or "error" for any other error (a failure of the store or of the network)
Call(by, op, key, res) == [by |-> by, op |-> op, key |-> key, res |-> res]
Sweeper == NamespacedName("", "cleanStaleSveltosCluster")
NoCall == Call(NamespacedName("", ""), "none", NamespacedName("", ""), "none")

\* the outcomes of a store call: it may fail with an error when the store is flaky
Faults == IF flaky THEN BOOLEAN ELSE {FALSE}

\* the process is running (it stops when the background loop panics)
Running == spc # "crashed"

\* writing a SveltosCluster key changes its resourceVersion: every pass that
\* holds a copy of it for Update now holds a stale one
Touched(ck) ==
    [k \in SecretKeys |->
        IF pc[k] = "update" /\ ObjKey(sc[k]) = ck THEN FALSE ELSE fresh[k]]

(***************************************************************************)
(* Initial state: a freshly started process (empty map, nothing running)   *)
(* in front of a store that other parties have already written; every      *)
(* secret present is delivered by the initial list of the watch.           *)
(***************************************************************************)
Started ==
    /\ SecretToCluster = EmptyMap
    /\ Mux = Nil
    /\ queue = DOMAIN secrets
    /\ pc = [k \in SecretKeys |-> "idle"]
    /\ sec = [k \in SecretKeys |-> Nil]
    /\ sc = [k \in SecretKeys |-> Nil]
    /\ fresh = [k \in SecretKeys |-> FALSE]
    /\ result = [k \in SecretKeys |-> "none"]
    /\ spc = "sleep"
    /\ items = << >>
    /\ si = 0
    /\ call = NoCall
    /\ envSteps = 0

Init ==
    /\ \E present \in SUBSET SecretKeys :
         \E ls \in [present -> UNION {SecretLabelSets(k) : k \in SecretKeys}] :
            /\ \A k \in present : ls[k] \in SecretLabelSets(k)
            /\ secrets = [k \in present |-> Secret(k, ls[k], 0)]
    /\ \E present \in SUBSET ClusterKeys :
         \E cs \in [present -> UNION {ForeignClusters(k) : k \in ClusterKeys}] :
            /\ \A k \in present : cs[k] \in ForeignClusters(k)
            /\ clusters = cs
    /\ Started
    /\ flaky = TRUE

(***************************************************************************)
(* The environment: the provisioning tool writes secrets, other actors     *)
(* register SveltosClusters, the process is restarted.  Every change of a  *)
(* secret is notified to the reconciler.                                   *)
(***************************************************************************)
EnvStep ==
    /\ envSteps < MaxEnvSteps
    /\ envSteps' = envSteps + 1
    /\ call' = NoCall
    /\ UNCHANGED flaky

\* create a secret, or change the labels of an existing one
PutSecret(k, labels) ==
    /\ EnvStep
    /\ Has(secrets, k) => secrets[k].labels # labels
    /\ secrets' = Put(secrets, k,
                      Secret(k, labels,
                             IF Has(secrets, k) THEN secrets[k].deletionTimestamp
                             ELSE 0))
    /\ queue' = queue \cup {k}
    /\ UNCHANGED <<clusters, SecretToCluster, Mux, pc, sec, sc, fresh, result, sweeper>>

\* delete a secret that a finalizer holds back: it gets its deletion timestamp
TerminateSecret(k) ==
    /\ EnvStep
    /\ Has(secrets, k)
    /\ secrets[k].deletionTimestamp = 0
    /\ secrets' = [secrets EXCEPT ![k].deletionTimestamp = 1]
    /\ queue' = queue \cup {k}
    /\ UNCHANGED <<clusters, SecretToCluster, Mux, pc, sec, sc, fresh, result, sweeper>>

\* the secret leaves the store
RemoveSecret(k) ==
    /\ EnvStep
    /\ Has(secrets, k)
    /\ secrets' = Del(secrets, k)
    /\ queue' = queue \cup {k}
    /\ UNCHANGED <<clusters, SecretToCluster, Mux, pc, sec, sc, fresh, result, sweeper>>

\* another actor registers a SveltosCluster
ForeignCreate(ck, c) ==
    /\ EnvStep
    /\ ~Has(clusters, ck)
    /\ clusters' = Put(clusters, ck, c)
    /\ fresh' = Touched(ck)
    /\ UNCHANGED <<secrets, SecretToCluster, Mux, queue, pc, sec, sc, result, sweeper>>

\* the process starts again: the map is empty, every pass and the background
\* loop start over, the watch lists the secrets that exist
Restarted ==
    /\ SecretToCluster' = EmptyMap
    /\ Mux' = Nil
    /\ queue' = DOMAIN secrets
    /\ pc' = [k \in SecretKeys |-> "idle"]
    /\ sec' = [k \in SecretKeys |-> Nil]
    /\ sc' = [k \in SecretKeys |-> Nil]
    /\ fresh' = [k \in SecretKeys |-> FALSE]
    /\ result' = [k \in SecretKeys |-> "none"]
    /\ spc' = "sleep"
    /\ items' = << >>
    /\ si' = 0
    /\ UNCHANGED store

\* a restart from outside (upgrade, eviction)
Restart ==
    /\ Running
    /\ EnvStep
    /\ Restarted

\* the restart that follows a panic of the process
RestartAfterPanic ==
    /\ ~Running
    /\ call' = NoCall
    /\ Restarted
    /\ UNCHANGED <<envSteps, flaky>>

(***************************************************************************)
(* SecretReconciler.Reconcile, one pass per secret key.                    *)
(* pc: idle -> [clean -> clean_get -> clean_delete] -> [map -> get ->      *)
(* create | update] -> idle.  result is what the pass returned:            *)
(*   "ok"      (Result{}, nil)                                             *)
(*   "requeue" (Result{Requeue: true, RequeueAfter: normalRequeueAfter})   *)
(*   "error"   (Result{}, err)                                             *)
(***************************************************************************)
\* a variant in which every pass returns plain success
Finish_alwaysOk(k, res, q, f) ==
    /\ pc' = [pc EXCEPT ![k] = "idle"]
    /\ result' = [result EXCEPT ![k] = "ok"]
    /\ sec' = [sec EXCEPT ![k] = Nil]
    /\ sc' = [sc EXCEPT ![k] = Nil]
    /\ fresh' = [f EXCEPT ![k] = FALSE]
    /\ queue' = q

\* the pass returns res; the work queue keeps the key unless it returned "ok"
Finish(k, res, q, f) ==
    /\ pc' = [pc EXCEPT ![k] = "idle"]
    /\ result' = [result EXCEPT ![k] = res]
    /\ sec' = [sec EXCEPT ![k] = Nil]
    /\ sc' = [sc EXCEPT ![k] = Nil]
    /\ fresh' = [f EXCEPT ![k] = FALSE]
    /\ queue' = IF res = "ok" THEN q ELSE q \cup {k}

\* Reconcile after a successful fetch: where it goes with the secret
afterFetch(secret) ==
    IF secret.deletionTimestamp # 0 THEN "clean"
    ELSE IF ~shouldReconcileSecret(secret) THEN "done"
    ELSE "map"

\* a variant in which the not-found answer of the fetch is returned as a
\* failure after the cleanup
afterClean_notFoundFails(secret, cleanErr) ==
    IF cleanErr \/ secret = Nil THEN "requeue"
    ELSE IF ~shouldReconcileSecret(secret) THEN "done"
    ELSE "map"

\* Reconcile after cleanSveltosCluster returned (cleanErr: it returned an
\* error).  secret is Nil when the fetch answered not-found.
afterClean(secret, cleanErr) ==
    IF cleanErr THEN "requeue"
    ELSE IF secret = Nil THEN "done"
    ELSE IF ~shouldReconcileSecret(secret) THEN "done"
    ELSE "map"

\* r.Get(ctx, req.NamespacedName, secret) and what follows up to the next
\* access to shared state
ReconcileFetch(k) ==
    /\ Running
    /\ pc[k] = "idle"
    /\ k \in queue
    /\ \E fault \in Faults :
         /\ LET res == IF fault THEN "error"
                       ELSE IF Has(secrets, k) THEN "ok" ELSE "notfound"
                nxt == IF res = "error" THEN "error"
                       ELSE IF res = "notfound" THEN "clean"
                       ELSE afterFetch(secrets[k])
            IN  /\ call' = Call(k, "get_secret", k, res)
                /\ IF nxt \in {"error", "done"}
                   THEN Finish(k, IF nxt = "error" THEN "error" ELSE "ok",
                               queue \ {k}, fresh)
                   ELSE /\ pc' = [pc EXCEPT ![k] = nxt]
                        /\ sec' = [sec EXCEPT ![k] =
                                      IF res = "ok" THEN secrets[k] ELSE Nil]
                        /\ result' = [result EXCEPT ![k] = "none"]
                        /\ queue' = queue \ {k}
                        /\ UNCHANGED <<sc, fresh>>
    /\ UNCHANGED <<store, SecretToCluster, Mux, sweeper, envSteps, flaky>>

\* Reconcile goes on after cleanSveltosCluster returned
AfterClean(k, cleanErr, f) ==
    IF afterClean(sec[k], cleanErr) = "map"
    THEN /\ pc' = [pc EXCEPT ![k] = "map"]
         /\ sc' = [sc EXCEPT ![k] = Nil]
         /\ fresh' = f
         /\ UNCHANGED <<sec, result, queue>>
    ELSE Finish(k, IF afterClean(sec[k], cleanErr) = "requeue" THEN "requeue" ELSE "ok",
                queue, f)

\* the map after cleanSveltosCluster saw outcome: "miss" (no entry), "absent"
\* (the cluster Get answered not-found), "deleted", "get_failed",
\* "delete_failed"
\* a variant that drops the entry whatever the outcome
mapAfterClean_always(m, secretKey, outcome) ==
    Del(m, secretKey)

\* first a variant that drops the entry only when the cluster was already absent
mapAfterClean_absentOnly(m, secretKey, outcome) ==
    IF outcome = "absent" THEN Del(m, secretKey) ELSE m

mapAfterClean(m, secretKey, outcome) ==
    IF outcome \in {"absent", "deleted"} THEN Del(m, secretKey) ELSE m

\* cleanSveltosCluster: r.Mux.Lock() and the lookup in the map
CleanLock(k) ==
    /\ Running
    /\ pc[k] = "clean"
    /\ Mux = Nil
    /\ call' = NoCall
    /\ IF ~Has(SecretToCluster, k)
       THEN /\ AfterClean(k, FALSE, fresh)
            /\ SecretToCluster' = mapAfterClean(SecretToCluster, k, "miss")
            /\ UNCHANGED Mux
       ELSE /\ Mux' = k
            /\ pc' = [pc EXCEPT ![k] = "clean_get"]
            /\ UNCHANGED <<SecretToCluster, sec, sc, fresh, result, queue>>
    /\ UNCHANGED <<store, sweeper, envSteps, flaky>>

\* a variant of the Get of cleanSveltosCluster that returns without unlocking
\* when the Get did not find the SveltosCluster or failed
CleanGet_keepsLock(k) ==
    /\ Running
    /\ pc[k] = "clean_get"
    /\ \E fault \in Faults :
         /\ LET target == SecretToCluster[k]
                res == IF fault THEN "error"
                       ELSE IF Has(clusters, target) THEN "ok" ELSE "notfound"
            IN  /\ call' = Call(k, "get_cluster", target, res)
                /\ IF res = "ok"
                   THEN /\ pc' = [pc EXCEPT ![k] = "clean_delete"]
                        /\ sc' = [sc EXCEPT ![k] = clusters[target]]
                        /\ UNCHANGED <<SecretToCluster, Mux, sec, fresh, result, queue>>
                   ELSE /\ SecretToCluster' =
                              mapAfterClean(SecretToCluster, k,
                                  IF res = "notfound" THEN "absent" ELSE "get_failed")
                        /\ UNCHANGED Mux
                        /\ AfterClean(k, res = "error", fresh)
    /\ UNCHANGED <<store, sweeper, envSteps, flaky>>

\* cleanSveltosCluster: r.Get(ctx, sveltosClusterInfo, sveltosCluster)
CleanGet(k) ==
    /\ Running
    /\ pc[k] = "clean_get"
    /\ \E fault \in Faults :
         /\ LET target == SecretToCluster[k]
                res == IF fault THEN "error"
                       ELSE IF Has(clusters, target) THEN "ok" ELSE "notfound"
            IN  /\ call' = Call(k, "get_cluster", target, res)
                /\ IF res = "ok"
                   THEN /\ pc' = [pc EXCEPT ![k] = "clean_delete"]
                        /\ sc' = [sc EXCEPT ![k] = clusters[target]]
                        /\ UNCHANGED <<SecretToCluster, Mux, sec, fresh, result, queue>>
                   ELSE /\ SecretToCluster' =
                              mapAfterClean(SecretToCluster, k,
                                  IF res = "notfound" THEN "absent" ELSE "get_failed")
                        /\ Mux' = Nil
                        /\ AfterClean(k, res = "error", fresh)
    /\ UNCHANGED <<store, sweeper, envSteps, flaky>>

\* cleanSveltosCluster: r.Delete(ctx, sveltosCluster) and the return
CleanDelete(k) ==
    /\ Running
    /\ pc[k] = "clean_delete"
    /\ \E fault \in Faults :
         /\ LET target == ObjKey(sc[k])
                res == IF fault THEN "error"
                       ELSE IF Has(clusters, target) THEN "ok" ELSE "notfound"
            IN  /\ call' = Call(k, "delete", target, res)
                /\ clusters' = IF res = "ok" THEN Del(clusters, target) ELSE clusters
                /\ SecretToCluster' =
                      mapAfterClean(SecretToCluster, k,
                          IF res = "ok" THEN "deleted" ELSE "delete_failed")
                /\ Mux' = Nil
                /\ AfterClean(k, res # "ok",
                              IF res = "ok" THEN Touched(target) ELSE fresh)
    /\ UNCHANGED <<secrets, sweeper, envSteps, flaky>>

\* a variant of updateSecretToClusterMap that keeps an entry the map already
\* has for the secret
updateSecretToClusterMap_keepsFirst(m, secret, sveltosClusterNamespace, sveltosClusterName) ==
    IF Has(m, NamespacedName(secret.namespace, secret.name))
    THEN m
    ELSE Put(m, NamespacedName(secret.namespace, secret.name),
             NamespacedName(sveltosClusterNamespace, sveltosClusterName))

\* updateSecretToClusterMap: the map with the entry for the secret written
updateSecretToClusterMap(m, secret, sveltosClusterNamespace, sveltosClusterName) ==
    Put(m, NamespacedName(secret.namespace, secret.name),
        NamespacedName(sveltosClusterNamespace, sveltosClusterName))

\* createSveltosCluster: r.updateSecretToClusterMap(...) under the mutex
UpdateMap(k) ==
    /\ Running
    /\ pc[k] = "map"
    /\ Mux = Nil
    /\ call' = NoCall
    /\ SecretToCluster' =
          updateSecretToClusterMap(SecretToCluster, sec[k],
                                   getSveltosClusterNamespace(sec[k]),
                                   getSveltosClusterName(sec[k]))
    /\ pc' = [pc EXCEPT ![k] = "get"]
    /\ UNCHANGED <<store, Mux, queue, sec, sc, fresh, result, sweeper, envSteps, flaky>>

\* createSveltosCluster: r.Get of the SveltosCluster and the object built from it
CreateGet(k) ==
    /\ Running
    /\ pc[k] = "get"
    /\ \E fault \in Faults :
         /\ LET target == NamespacedName(getSveltosClusterNamespace(sec[k]),
                                         getSveltosClusterName(sec[k]))
                res == IF fault THEN "error"
                       ELSE IF Has(clusters, target) THEN "ok" ELSE "notfound"
            IN  /\ call' = Call(k, "get_cluster", target, res)
                /\ IF res = "error"
                   THEN Finish(k, "requeue", queue, fresh)
                   ELSE /\ pc' = [pc EXCEPT ![k] =
                                     IF res = "ok" THEN "update" ELSE "create"]
                        /\ sc' = [sc EXCEPT ![k] =
                                     IF res = "ok"
                                     THEN updatedSveltosCluster(clusters[target], sec[k])
                                     ELSE newSveltosCluster(sec[k])]
                        /\ fresh' = [fresh EXCEPT ![k] = (res = "ok")]
                        /\ UNCHANGED <<sec, result, queue>>
    /\ UNCHANGED <<store, SecretToCluster, Mux, sweeper, envSteps, flaky>>

\* a variant in which the store accepts a create for a key that exists and
\* overwrites the object
CreateCreate_overwrites(k) ==
    /\ Running
    /\ pc[k] = "create"
    /\ \E fault \in Faults :
         /\ LET target == ObjKey(sc[k])
                res == IF fault THEN "error" ELSE "ok"
            IN  /\ call' = Call(k, "create", target, res)
                /\ clusters' = IF res = "ok" THEN Put(clusters, target, sc[k])
                               ELSE clusters
                /\ Finish(k, IF res = "ok" THEN "ok" ELSE "requeue", queue,
                          IF res = "ok" THEN Touched(target) ELSE fresh)
    /\ UNCHANGED <<secrets, SecretToCluster, Mux, sweeper, envSteps, flaky>>

\* createSveltosCluster: r.Create(ctx, sveltosCluster); the store rejects a
\* create for a key that exists
CreateCreate(k) ==
    /\ Running
    /\ pc[k] = "create"
    /\ \E fault \in Faults :
         /\ LET target == ObjKey(sc[k])
                res == IF fault THEN "error"
                       ELSE IF Has(clusters, target) THEN "alreadyexists" ELSE "ok"
            IN  /\ call' = Call(k, "create", target, res)
                /\ clusters' = IF res = "ok" THEN Put(clusters, target, sc[k])
                               ELSE clusters
                /\ Finish(k, IF res = "ok" THEN "ok" ELSE "requeue", queue,
                          IF res = "ok" THEN Touched(target) ELSE fresh)
    /\ UNCHANGED <<secrets, SecretToCluster, Mux, sweeper, envSteps, flaky>>

\* createSveltosCluster: r.Update(ctx, sveltosCluster); the store rejects an
\* update of an object that is gone or whose resourceVersion is not current
CreateUpdate(k) ==
    /\ Running
    /\ pc[k] = "update"
    /\ \E fault \in Faults :
         /\ LET target == ObjKey(sc[k])
                res == IF fault THEN "error"
                       ELSE IF ~Has(clusters, target) THEN "notfound"
                       ELSE IF ~fresh[k] THEN "conflict" ELSE "ok"
            IN  /\ call' = Call(k, "update", target, res)
                /\ clusters' = IF res = "ok" THEN Put(clusters, target, sc[k])
                               ELSE clusters
                /\ Finish(k, IF res = "ok" THEN "ok" ELSE "requeue", queue,
                          IF res = "ok" THEN Touched(target) ELSE fresh)
    /\ UNCHANGED <<secrets, SecretToCluster, Mux, sweeper, envSteps, flaky>>

(***************************************************************************)
(* cleanStaleSveltosCluster, the background loop.                          *)
(* spc: sleep -> item -> [delete ->] item ... -> sleep; "crashed" after a  *)
(* nil pointer dereference.  items holds the listed objects that the two   *)
(* local checks of the loop body do not skip (the checks read the listed   *)
(* copy only, so they are applied when the list arrives).                  *)
(***************************************************************************)
\* what c.List returns: the SveltosClusters in key order
ListClusters ==
    LET ks == SelectSeq(ClusterKeySeq, LAMBDA ck : Has(clusters, ck))
    IN  [i \in 1..Len(ks) |-> clusters[ks[i]]]

\* the two checks of the loop body that skip an item without a store call;
\* first a variant that does not look at the annotation
sweepSkips_deletingOnly(sveltosCluster) ==
    sveltosCluster.deletionTimestamp # 0

sweepSkips(sveltosCluster) ==
    \/ sveltosCluster.deletionTimestamp # 0
    \/ ~isSveltosClusterForClaudie(sveltosCluster)

\* the listed items that the loop body goes on with
Examined(list) == SelectSeq(list, LAMBDA c : ~sweepSkips(c))

\* a variant in which the tick ends at once
SweepNext_endTick ==
    /\ si' = 0
    /\ spc' = "sleep"
    /\ items' = << >>

\* the loop over Items moves to the next item, or the tick ends
SweepNext ==
    IF si < Len(items)
    THEN /\ si' = si + 1
         /\ spc' = "item"
         /\ UNCHANGED items
    ELSE /\ si' = 0
         /\ spc' = "sleep"
         /\ items' = << >>

\* time.Sleep is over: c.List(context.TODO(), sveltosClusters)
SweepList ==
    /\ spc = "sleep"
    /\ \E fault \in Faults :
         /\ call' = Call(Sweeper, "list", NamespacedName("", ""),
                         IF fault THEN "error" ELSE "ok")
         /\ IF fault \/ Examined(ListClusters) = << >>
            THEN UNCHANGED sweeper
            ELSE /\ items' = Examined(ListClusters)
                 /\ si' = 1
                 /\ spc' = "item"
    /\ UNCHANGED <<store, reconciler, envSteps, flaky>>

\* isClaudieSecretRemoved after its c.Get answered res with the object secret;
\* first a variant that takes every failed Get for a removed secret
isClaudieSecretRemoved_anyError(res, secret) ==
    IF res # "ok" THEN TRUE ELSE secret.deletionTimestamp # 0

isClaudieSecretRemoved(res, secret) ==
    IF res # "ok" THEN res = "notfound" ELSE secret.deletionTimestamp # 0

\* the loop body for Items[i] from getClaudieSecret to the decision to delete
SweepItem ==
    /\ spc = "item"
    /\ LET claudieSecret == getClaudieSecret(items[si])
       IN  IF claudieSecret = Nil
           THEN \* the message is logged and isClaudieSecretRemoved
                \* dereferences the nil pointer: the process panics
                /\ spc' = "crashed"
                /\ call' = NoCall
                /\ UNCHANGED <<items, si>>
           ELSE \E fault \in Faults :
                   LET res == IF fault THEN "error"
                              ELSE IF Has(secrets, claudieSecret) THEN "ok"
                              ELSE "notfound"
                       obj == IF res = "ok" THEN secrets[claudieSecret] ELSE Nil
                   IN  /\ call' = Call(Sweeper, "get_secret", claudieSecret, res)
                       /\ IF isClaudieSecretRemoved(res, obj)
                          THEN /\ spc' = "delete"
                               /\ UNCHANGED <<items, si>>
                          ELSE SweepNext
    /\ UNCHANGED <<store, reconciler, envSteps, flaky>>

\* a variant of the Delete of the loop that also drops the entries of the map
\* that name the deleted SveltosCluster
SweepDelete_dropsEntries ==
    /\ spc = "delete"
    /\ \E fault \in Faults :
         /\ LET target == ObjKey(items[si])
                res == IF fault THEN "error"
                       ELSE IF Has(clusters, target) THEN "ok" ELSE "notfound"
            IN  /\ call' = Call(Sweeper, "delete", target, res)
                /\ clusters' = IF res = "ok" THEN Del(clusters, target) ELSE clusters
                /\ fresh' = IF res = "ok" THEN Touched(target) ELSE fresh
                /\ SecretToCluster' =
                      [k \in {x \in DOMAIN SecretToCluster :
                                 res # "ok" \/ SecretToCluster[x] # target}
                          |-> SecretToCluster[k]]
    /\ SweepNext
    /\ UNCHANGED <<secrets, Mux, queue, pc, sec, sc, result, envSteps, flaky>>

\* c.Delete(ctx, sveltosCluster): by namespace and name; a failure is logged
SweepDelete ==
    /\ spc = "delete"
    /\ \E fault \in Faults :
         /\ LET target == ObjKey(items[si])
                res == IF fault THEN "error"
                       ELSE IF Has(clusters, target) THEN "ok" ELSE "notfound"
            IN  /\ call' = Call(Sweeper, "delete", target, res)
                /\ clusters' = IF res = "ok" THEN Del(clusters, target) ELSE clusters
                /\ fresh' = IF res = "ok" THEN Touched(target) ELSE fresh
    /\ SweepNext
    /\ UNCHANGED <<secrets, SecretToCluster, Mux, queue, pc, sec, sc, result, envSteps, flaky>>

(***************************************************************************)
(* The specification.                                                      *)
(***************************************************************************)
Next ==
    \/ \E k \in SecretKeys : \E labels \in SecretLabelSets(k) : PutSecret(k, labels)
    \/ \E k \in SecretKeys : TerminateSecret(k)
    \/ \E k \in SecretKeys : RemoveSecret(k)
    \/ \E ck \in ClusterKeys : \E c \in ForeignClusters(ck) : ForeignCreate(ck, c)
    \/ Restart
    \/ RestartAfterPanic
    \/ \E k \in SecretKeys : ReconcileFetch(k)
    \/ \E k \in SecretKeys : CleanLock(k)
    \/ \E k \in SecretKeys : CleanGet(k)
    \/ \E k \in SecretKeys : CleanDelete(k)
    \/ \E k \in SecretKeys : UpdateMap(k)
    \/ \E k \in SecretKeys : CreateGet(k)
    \/ \E k \in SecretKeys : CreateCreate(k)
    \/ \E k \in SecretKeys : CreateUpdate(k)
    \/ SweepList
    \/ SweepItem
    \/ SweepDelete

Spec == Init /\ [][Next]_vars

(***************************************************************************)
(* The fair specification: a fresh installation (no SveltosCluster yet, the *)
(* store answers every call), the provisioning tool changes secrets a       *)
(* bounded number of times, every notified key gets its pass and every      *)
(* started pass goes on, and the background loop keeps running.             *)
(***************************************************************************)
\* one Reconcile pass for key k, step by step
Reconcile(k) ==
    \/ ReconcileFetch(k)
    \/ CleanLock(k)
    \/ CleanGet(k)
    \/ CleanDelete(k)
    \/ UpdateMap(k)
    \/ CreateGet(k)
    \/ CreateCreate(k)
    \/ CreateUpdate(k)

\* the background loop, step by step
cleanStaleSveltosCluster ==
    \/ SweepList
    \/ SweepItem
    \/ SweepDelete

LiveInit ==
    /\ \E present \in SUBSET SecretKeys :
         \E ls \in [present -> UNION {SecretLabelSets(k) : k \in SecretKeys}] :
            /\ \A k \in present : ls[k] \in SecretLabelSets(k)
            /\ secrets = [k \in present |-> Secret(k, ls[k], 0)]
    /\ clusters = EmptyMap
    /\ Started
    /\ flaky = FALSE

LiveNext ==
    \/ \E k \in SecretKeys : \E labels \in SecretLabelSets(k) : PutSecret(k, labels)
    \/ \E k \in SecretKeys : TerminateSecret(k)
    \/ \E k \in SecretKeys : RemoveSecret(k)
    \/ \E k \in SecretKeys : Reconcile(k)
    \/ cleanStaleSveltosCluster

LiveSpec ==
    /\ LiveInit
    /\ [][LiveNext]_vars
    /\ \A k \in SecretKeys : SF_vars(Reconcile(k))
    /\ WF_vars(cleanStaleSveltosCluster)

(***************************************************************************)
(* The specification of the eligibility decision: one secret with any      *)
(* label map over the three keys and a foreign one, each key absent or     *)
(* present with an empty or a non-empty value; the pass fetches it and,    *)
(* when it goes on, records it in the map.                                 *)
(***************************************************************************)
LabelKeys == {claudieLabel, claudieKubeconfig, claudieCluster, "env"}
LabelValues == {"", "c1"}
LabelMaps == UNION {[ks -> LabelValues] : ks \in SUBSET LabelKeys}

EligibilityInit ==
    /\ \E labels \in LabelMaps :
         secrets = Put(EmptyMap, NamespacedName("ns", "s1"),
                       Secret(NamespacedName("ns", "s1"), labels, 0))
    /\ clusters = EmptyMap
    /\ Started
    /\ flaky = FALSE

EligibilityNext ==
    \/ \E k \in SecretKeys : ReconcileFetch(k)
    \/ \E k \in SecretKeys : UpdateMap(k)

EligibilitySpec == EligibilityInit /\ [][EligibilityNext]_vars

(***************************************************************************)
(* Vocabulary of the properties.  These are written on the objects         *)
(* themselves, not with the operators that model the code.                 *)
(***************************************************************************)
HasAllLabels(secret) ==
    {claudieLabel, claudieKubeconfig, claudieCluster} \subseteq DOMAIN secret.labels

\* the key (secret namespace, value of the cluster-name label)
TargetOf(secret) == NamespacedName(secret.namespace, secret.labels[claudieCluster])

HasMarker(c) == sveltosClusterClaudieAnnotation \in DOMAIN c.annotations

NamesOwner(c, n) ==
    \E i \in 1..Len(c.ownerReferences) :
        /\ c.ownerReferences[i].kind = "Secret"
        /\ c.ownerReferences[i].name = n

HasSecretOwner(c) ==
    \E i \in 1..Len(c.ownerReferences) : c.ownerReferences[i].kind = "Secret"

\* the step ends the pass for k with plain success while the pass was about
\* to create or to update the SveltosCluster for a secret without deletion
\* timestamp
EndsInSuccess(k) ==
    /\ pc[k] \in {"create", "update"}
    /\ sec[k].deletionTimestamp = 0
    /\ pc'[k] = "idle"
    /\ result'[k] = "ok"

(***************************************************************************)
(* C1                                                                      *)
(***************************************************************************)
\* C1, as stated: after a pass for an eligible secret without deletion
\* timestamp that ends in success, the SveltosCluster at (secret namespace,
\* cluster-name label) exists, names the secret as credential, carries the
\* annotation and has the secret as owner - whatever the store held before.
C1_AsStated ==
    [][\A k \in SecretKeys :
          EndsInSuccess(k) =>
             /\ Has(clusters', TargetOf(sec[k]))
             /\ clusters'[TargetOf(sec[k])].kubeconfigName = sec[k].name
             /\ HasMarker(clusters'[TargetOf(sec[k])])
             /\ NamesOwner(clusters'[TargetOf(sec[k])], sec[k].name)]_vars

\* C1, amended: the SveltosCluster exists at that key with the annotation and
\* the secret as owner; its credential reference is the secret's name when the
\* pass created it, and the value the stored object already had when the pass
\* updated it.
C1_RegisteredAfterSuccess ==
    [][\A k \in SecretKeys :
          EndsInSuccess(k) =>
             /\ HasAllLabels(sec[k])
             /\ Has(clusters', TargetOf(sec[k]))
             /\ HasMarker(clusters'[TargetOf(sec[k])])
             /\ NamesOwner(clusters'[TargetOf(sec[k])], sec[k].name)
             /\ pc[k] = "create" =>
                   /\ ~Has(clusters, TargetOf(sec[k]))
                   /\ clusters'[TargetOf(sec[k])].kubeconfigName = sec[k].name
             /\ pc[k] = "update" =>
                   /\ Has(clusters, TargetOf(sec[k]))
                   /\ clusters'[TargetOf(sec[k])].kubeconfigName =
                         clusters[TargetOf(sec[k])].kubeconfigName]_vars

\* a pass has just updated, with success, a SveltosCluster whose credential
\* reference names another secret
C1_Witness ==
    \E k \in SecretKeys :
        /\ call = Call(k, "update", call.key, "ok")
        /\ result[k] = "ok"
        /\ Has(secrets, k)
        /\ HasAllLabels(secrets[k])
        /\ secrets[k].deletionTimestamp = 0
        /\ call.key = TargetOf(secrets[k])
        /\ Has(clusters, call.key)
        /\ NamesOwner(clusters[call.key], k.name)
        /\ clusters[call.key].kubeconfigName # k.name

(***************************************************************************)
(* C2                                                                      *)
(***************************************************************************)
\* C2: when the fetch answered not-found, the map names a SveltosCluster for
\* the key and the delete of the cleanup succeeds, that SveltosCluster is
\* gone and the map has no entry for the key after the pass, which ends in
\* success.
C2_CleanupDeletes ==
    [][\A k \in SecretKeys :
          (/\ pc[k] = "clean_delete"
           /\ sec[k] = Nil
           /\ call' = Call(k, "delete", call'.key, "ok"))
          => /\ call'.key = SecretToCluster[k]
             /\ Has(clusters, SecretToCluster[k])
             /\ ~Has(clusters', SecretToCluster[k])
             /\ ~Has(SecretToCluster', k)
             /\ pc'[k] = "idle"
             /\ result'[k] = "ok"]_vars

\* the cleanup of a pass whose secret is gone has just deleted the cluster
C2_Witness ==
    \E k \in SecretKeys :
        /\ call = Call(k, "delete", call.key, "ok")
        /\ ~Has(secrets, k)
        /\ pc[k] = "idle"
        /\ result[k] = "ok"
        /\ ~Has(clusters, call.key)
        /\ ~Has(SecretToCluster, k)

(***************************************************************************)
(* C3                                                                      *)
(***************************************************************************)
\* some step of the pass for k
PassMoves(k) == pc'[k] # pc[k] /\ call'.by \in {k, NoCall.by} /\ Running'

\* C3: a pass that fetched a secret with a deletion timestamp runs the cleanup
\* and stops: no step of it adds or changes a SveltosCluster or adds an entry
\* to the map, and the pass does not go on to createSveltosCluster.
C3_DeletedSecretOnlyCleansUp ==
    [][\A k \in SecretKeys :
          (/\ sec[k] # Nil
           /\ sec[k].deletionTimestamp # 0
           /\ PassMoves(k))
          => /\ \A ck \in DOMAIN clusters' :
                   Has(clusters, ck) /\ clusters'[ck] = clusters[ck]
             /\ DOMAIN SecretToCluster' \subseteq DOMAIN SecretToCluster
             /\ pc'[k] \in {"idle", "clean", "clean_get", "clean_delete"}]_vars

(***************************************************************************)
(* C4                                                                      *)
(***************************************************************************)
\* C4: a pass that fetches a secret without deletion timestamp that lacks one
\* of the three labels ends at once in success; it makes no other store call
\* and leaves the SveltosClusters and the map as they are.
C4_IneligibleUntouched ==
    [][\A k \in SecretKeys :
          (/\ pc[k] = "idle"
           /\ call' = Call(k, "get_secret", k, "ok")
           /\ secrets[k].deletionTimestamp = 0
           /\ ~HasAllLabels(secrets[k]))
          => /\ pc'[k] = "idle"
             /\ result'[k] = "ok"
             /\ k \notin queue'
             /\ clusters' = clusters
             /\ SecretToCluster' = SecretToCluster]_vars

\* a pass has just ended for a secret that lacks a label and that the map
\* still records from the time it was eligible
C4_Witness ==
    \E k \in SecretKeys :
        /\ call = Call(k, "get_secret", k, "ok")
        /\ pc[k] = "idle"
        /\ result[k] = "ok"
        /\ Has(secrets, k)
        /\ secrets[k].deletionTimestamp = 0
        /\ ~HasAllLabels(secrets[k])
        /\ Has(SecretToCluster, k)
        /\ Has(clusters, SecretToCluster[k])

(***************************************************************************)
(* C7, C8, C9, C10: the background loop                                    *)
(***************************************************************************)
\* every owner of kind Secret (there is one) names a secret that the store
\* does not hold
OwnerGone(c) ==
    /\ HasSecretOwner(c)
    /\ \A i \in 1..Len(c.ownerReferences) :
          c.ownerReferences[i].kind = "Secret"
             => ~Has(secrets, NamespacedName(c.namespace, c.ownerReferences[i].name))

\* a step of the loop whose store call, if it made one, did not fail
SweeperStepNoError ==
    /\ spc \in {"item", "delete"}
    /\ call'.by = Sweeper \/ spc' = "crashed"
    /\ call'.res # "error"

\* C7: a tick whose list succeeded and whose calls do not fail deletes every
\* listed SveltosCluster that carries the annotation, is not being deleted
\* and whose owner secret is absent: the loop does not leave such an item
\* behind, and the tick does not end before it has handled every such item.
C7_StaleDeletedByTick ==
    [][SweeperStepNoError =>
          \A i \in 1..Len(items) :
             (/\ OwnerGone(items[i])
              /\ \/ i = si /\ ~(spc = "item" /\ spc' = "delete")
                 \/ i > si /\ spc' \in {"sleep", "crashed"})
             => ~Has(clusters', ObjKey(items[i]))]_vars

\* C8: every delete call of the loop is for the listed item at hand, and that
\* item carries the annotation and has no deletion timestamp; items without
\* the annotation or with a deletion timestamp are not examined at all.
C8_SweepSkipsUnmarked ==
    [][/\ call'.by = Sweeper /\ call'.op = "delete" =>
             /\ spc = "delete"
             /\ call'.key = ObjKey(items[si])
             /\ HasMarker(items[si])
             /\ items[si].deletionTimestamp = 0
       /\ \A i \in 1..Len(items') :
             HasMarker(items'[i]) /\ items'[i].deletionTimestamp = 0]_vars

\* the list of a tick has just returned a SveltosCluster without the
\* annotation whose owner secret is absent; the tick does not examine it
C8_Witness ==
    \E ck \in ClusterKeys :
        /\ call = Call(Sweeper, "list", call.key, "ok")
        /\ Has(clusters, ck)
        /\ ~HasMarker(clusters[ck])
        /\ OwnerGone(clusters[ck])
        /\ \A i \in 1..Len(items) : ObjKey(items[i]) # ck

\* C9: at an item with the annotation and without an owner of kind Secret the
\* loop makes no store call, changes nothing and moves to the next item or
\* ends the tick; it does not crash.
C9_NoOwnerSkipped ==
    [][(/\ spc = "item"
        /\ ~HasSecretOwner(items[si])
        /\ <<spc, si>>' # <<spc, si>>)
       => /\ spc' \in {"item", "sleep"}
          /\ call' = NoCall
          /\ clusters' = clusters]_vars

\* the key the loop asks the store for: the namespace of the SveltosCluster
\* and the name of its first owner reference of kind Secret
OwnerKeyOf(c) ==
    NamespacedName(
        c.namespace,
        c.ownerReferences[
            CHOOSE i \in 1..Len(c.ownerReferences) :
                /\ c.ownerReferences[i].kind = "Secret"
                /\ \A j \in 1..(i - 1) : c.ownerReferences[j].kind # "Secret"].name)

\* C10: the loop turns to the delete of an item only in the step in which its
\* own Get of the owning secret answered not-found or returned a secret with
\* a deletion timestamp; when the Get returned a secret without deletion
\* timestamp or failed with another error, it makes no delete call for the
\* item; and a delete call is made only after that turn.
C10_DeleteOnlyIfRemoved ==
    [][/\ (spc' = "delete" /\ (spc # "delete" \/ si' # si)) =>
             /\ spc = "item"
             /\ call' = Call(Sweeper, "get_secret", OwnerKeyOf(items[si]), call'.res)
             /\ \/ call'.res = "notfound" /\ ~Has(secrets, call'.key)
                \/ /\ call'.res = "ok"
                   /\ secrets[call'.key].deletionTimestamp # 0
             /\ <<items, si>>' = <<items, si>>
       /\ (call'.by = Sweeper /\ call'.op = "delete") =>
             spc = "delete" /\ call'.key = ObjKey(items[si])
       /\ (/\ spc = "item"
           /\ call'.by = Sweeper
           /\ \/ call'.res = "error"
              \/ call'.res = "ok" /\ secrets[call'.key].deletionTimestamp = 0)
          => /\ spc' # "delete"
             /\ call'.op = "get_secret"
             /\ clusters' = clusters]_vars

\* the loop has just found the owning secret with a deletion timestamp and
\* turns to the delete of the SveltosCluster
C10_Witness ==
    /\ spc = "delete"
    /\ call = Call(Sweeper, "get_secret", OwnerKeyOf(items[si]), "ok")
    /\ Has(secrets, call.key)
    /\ secrets[call.key].deletionTimestamp # 0
    /\ Has(clusters, ObjKey(items[si]))

(***************************************************************************)
(* C5, C6: what the store converges to                                     *)
(***************************************************************************)
\* a secret that is present, has no deletion timestamp and has the three labels
LiveEligible(k) ==
    /\ Has(secrets, k)
    /\ secrets[k].deletionTimestamp = 0
    /\ HasAllLabels(secrets[k])

\* C5: once the secrets have stopped changing, every call succeeding and every
\* pass and the background loop running on, from some point on every
\* SveltosCluster with the annotation has a present eligible secret without
\* deletion timestamp in its namespace whose claudie.io/cluster label is its
\* name.
C5_NoOrphanSurvives ==
    <>[](\A ck \in DOMAIN clusters :
            HasMarker(clusters[ck]) =>
               \E k \in SecretKeys : LiveEligible(k) /\ TargetOf(secrets[k]) = ck)

\* C6: under the same conditions, from some point on every present eligible
\* secret without deletion timestamp has its SveltosCluster at (namespace of
\* the secret, value of the claudie.io/cluster label).
C6_NoClusterMissing ==
    <>[](\A k \in SecretKeys :
            LiveEligible(k) => Has(clusters, TargetOf(secrets[k])))

(***************************************************************************)
(* C11                                                                     *)
(***************************************************************************)
\* how many owner references of c are of kind Secret with name n
OwnerCount(c, n) ==
    Cardinality({i \in 1..Len(c.ownerReferences) :
                    /\ c.ownerReferences[i].kind = "Secret"
                    /\ c.ownerReferences[i].name = n})

\* the stored SveltosCluster at ck is as a successful pass for the secret
\* named n leaves it: annotation and exactly one owner reference for n
AsLeftByPass(ck, n) ==
    /\ Has(clusters, ck)
    /\ HasMarker(clusters[ck])
    /\ OwnerCount(clusters[ck], n) = 1

\* C11: a pass for an eligible secret that ends in success on a SveltosCluster
\* that an earlier successful pass for the same secret left leaves that object
\* exactly as it was (one owner reference for the secret, the annotation, the
\* credential reference) and leaves the entry of the map as it was.
C11_SecondPassChangesNothing ==
    [][\A k \in SecretKeys :
          (/\ EndsInSuccess(k)
           /\ AsLeftByPass(TargetOf(sec[k]), sec[k].name))
          => /\ clusters' = clusters
             /\ OwnerCount(clusters'[TargetOf(sec[k])], sec[k].name) = 1
             /\ Has(SecretToCluster, k)
             /\ SecretToCluster[k] = TargetOf(sec[k])
             /\ SecretToCluster' = SecretToCluster]_vars

\* a pass has just ended in success with an update of the SveltosCluster that
\* a pass for the same secret created: one owner reference, the secret's name
\* as credential reference
C11_Witness ==
    \E k \in SecretKeys :
        /\ call = Call(k, "update", call.key, "ok")
        /\ result[k] = "ok"
        /\ Has(secrets, k)
        /\ HasAllLabels(secrets[k])
        /\ call.key = TargetOf(secrets[k])
        /\ Has(clusters, call.key)
        /\ clusters[call.key].ownerReferences = SecretOwner(k.name)
        /\ clusters[call.key].kubeconfigName = k.name
        /\ HasMarker(clusters[call.key])
        /\ Has(SecretToCluster, k)
        /\ SecretToCluster[k] = call.key

(***************************************************************************)
(* C12                                                                     *)
(***************************************************************************)
\* a step of the running pass for k (a restart of the process ends every
\* pass without a result)
PassStep(k) ==
    /\ pc'[k] # pc[k]
    /\ pc'[k] = "idle" => result'[k] # "none"

\* a step of cleanSveltosCluster for k that made a store call
CleanCall(k) ==
    /\ pc[k] \in {"clean_get", "clean_delete"}
    /\ call'.by = k

\* C12: cleanSveltosCluster drops the entry of the map for a key only in the
\* step in which the Delete of the recorded SveltosCluster succeeded or its
\* Get answered not-found; when the Get or the Delete fails otherwise, the
\* cleanup returns the error (the pass asks for a requeue) and the map is
\* unchanged, so the next pass finds the same entry.
C12_EntryDroppedOnlyAfterDelete ==
    [][\A k \in SecretKeys :
          /\ (/\ pc[k] \in {"clean", "clean_get", "clean_delete"}
              /\ PassStep(k)
              /\ Has(SecretToCluster, k)
              /\ ~Has(SecretToCluster', k))
             => /\ call'.by = k
                /\ call'.key = SecretToCluster[k]
                /\ \/ call'.op = "delete" /\ call'.res = "ok"
                      /\ ~Has(clusters', call'.key)
                   \/ call'.op = "get_cluster" /\ call'.res = "notfound"
                      /\ ~Has(clusters, call'.key)
          /\ (CleanCall(k) /\ call'.res \notin {"ok", "notfound"})
             => /\ SecretToCluster' = SecretToCluster
                /\ clusters' = clusters
                /\ pc'[k] = "idle"
                /\ result'[k] = "requeue"
                /\ k \in queue']_vars

\* the Delete of the cleanup has just failed: the pass asks for a requeue and
\* the map still names the SveltosCluster, which is still stored
C12_Witness ==
    \E k \in SecretKeys :
        /\ call = Call(k, "delete", call.key, "error")
        /\ result[k] = "requeue"
        /\ k \in queue
        /\ Has(SecretToCluster, k)
        /\ SecretToCluster[k] = call.key
        /\ Has(clusters, call.key)

(***************************************************************************)
(* C13                                                                     *)
(***************************************************************************)
\* the store call c failed: any error, but for the not-found answers of a Get
FailedCall(c) ==
    \/ c.res \in {"error", "alreadyexists", "conflict"}
    \/ c.res = "notfound" /\ c.op \in {"delete", "update"}

\* C13: a pass in which a store call fails (a not-found answer to a Get is no
\* failure) ends with that call, and it returns either an error (the fetch of
\* the secret failed) or the request to requeue after normalRequeueAfter; it
\* does not return plain success and the key stays in the work queue.
C13_NoSilentDrop ==
    [][\A k \in SecretKeys :
          (call'.by = k /\ FailedCall(call'))
          => /\ pc[k] # "idle" \/ call'.op = "get_secret"
             /\ pc'[k] = "idle"
             /\ result'[k] \in {"error", "requeue"}
             /\ result'[k] = "error" <=> call'.op = "get_secret"
             /\ k \in queue']_vars

\* the Create of a pass has just failed: the pass asks for a requeue
C13_Witness ==
    \E k \in SecretKeys :
        /\ call = Call(k, "create", call.key, "error")
        /\ pc[k] = "idle"
        /\ result[k] = "requeue"
        /\ k \in queue
        /\ ~Has(clusters, call.key)

(***************************************************************************)
(* C14                                                                     *)
(***************************************************************************)
\* C14: no pass makes a store call (the Get or the Delete of a SveltosCluster)
\* while it holds the mutex of the map: the mutex is held for the single map
\* operation only.
C14_NoLockAcrossStoreCall ==
    [][\A k \in SecretKeys :
          (call'.by = k /\ call'.op \in {"get_cluster", "delete"}) => Mux # k]_vars

(***************************************************************************)
(* C15                                                                     *)
(***************************************************************************)
\* the secret as the store holds it, and as the pass for k fetched it (a pass
\* that ends with its fetch has no copy: it saw the stored one)
Current(k) == IF Has(secrets, k) THEN secrets[k] ELSE Nil
FetchedBy(k) == IF pc[k] = "idle" THEN Current(k) ELSE sec[k]

\* the SveltosClusters of cs with the annotation that name secret k as owner
OwnedIn(cs, k) ==
    {ck \in DOMAIN cs : HasMarker(cs[ck]) /\ NamesOwner(cs[ck], k.name)}

\* what a pass leaves for a fetched secret when no pass ran before: the one
\* SveltosCluster named by the claudie.io/cluster label when the secret has
\* the three labels, none otherwise
FromScratch(secret) ==
    IF secret # Nil /\ HasAllLabels(secret) THEN {TargetOf(secret)} ELSE {}

\* C15: what a successful pass leaves for its key is a function of the secret
\* it fetched, the secret being in its final state: the SveltosClusters with
\* the annotation that name the secret as owner, and the entry of the map,
\* are those a first pass for that secret would leave, whatever passes ran
\* before and whatever states of the secret they saw.
C15_DependsOnlyOnFetchedSecret ==
    [][\A k \in SecretKeys :
          (/\ PassStep(k)
           /\ pc'[k] = "idle"
           /\ result'[k] = "ok"
           /\ FetchedBy(k) = Current(k))
          => /\ OwnedIn(clusters', k) = FromScratch(FetchedBy(k))
             /\ IF FromScratch(FetchedBy(k)) = {}
                THEN ~Has(SecretToCluster', k)
                ELSE /\ Has(SecretToCluster', k)
                     /\ {SecretToCluster'[k]} = FromScratch(FetchedBy(k))]_vars

(***************************************************************************)
(* C16                                                                     *)
(***************************************************************************)
\* C16: the pass goes on to createSveltosCluster for a fetched secret without
\* deletion timestamp exactly when the three label keys are present, whatever
\* their values (an empty value counts as present) and whatever other labels
\* there are; with no labels or with one or two of the keys it ends at once.
C16_EligibleIffThreeKeys ==
    [][\A k \in SecretKeys :
          (/\ pc[k] = "idle"
           /\ call' = Call(k, "get_secret", k, "ok")
           /\ secrets[k].deletionTimestamp = 0)
          => /\ pc'[k] = "map" <=>
                   {claudieLabel, claudieKubeconfig, claudieCluster}
                       \subseteq DOMAIN secrets[k].labels
             /\ pc'[k] \in {"map", "idle"}
             /\ pc'[k] = "idle" => result'[k] = "ok"]_vars

\* the pass goes on with a secret whose three labels all have the empty value
C16_Witness ==
    \E k \in SecretKeys :
        /\ pc[k] = "map"
        /\ call = Call(k, "get_secret", k, "ok")
        /\ DOMAIN sec[k].labels = {claudieLabel, claudieKubeconfig, claudieCluster}
        /\ \A l \in DOMAIN sec[k].labels : sec[k].labels[l] = ""

(***************************************************************************)
(* C17                                                                     *)
(***************************************************************************)
\* the owner references new are the references old, with at most one
\* reference of kind Secret named n appended
OwnersKept(old, new, n) ==
    \/ new = old
    \/ /\ Len(new) = Len(old) + 1
       /\ SubSeq(new, 1, Len(old)) = old
       /\ new[Len(new)].kind = "Secret"
       /\ new[Len(new)].name = n
       /\ \A i \in 1..Len(old) : ~(old[i].kind = "Secret" /\ old[i].name = n)

\* C17: the Update of a pass changes nothing on the stored SveltosCluster but
\* the annotation projectsveltos.io/claudie, which it sets, and the owner
\* reference for the secret, which it appends when missing: labels, other
\* annotations, other owner references and the credential reference stay;
\* and the SveltosCluster a pass creates has no labels.
C17_UpdateKeepsTheRest ==
    [][\A k \in SecretKeys :
          /\ call' = Call(k, "update", call'.key, "ok") =>
                LET old == clusters[call'.key]
                    new == clusters'[call'.key]
                IN  /\ new.labels = old.labels
                    /\ new.kubeconfigName = old.kubeconfigName
                    /\ new.deletionTimestamp = old.deletionTimestamp
                    /\ DOMAIN new.annotations =
                          DOMAIN old.annotations \cup {sveltosClusterClaudieAnnotation}
                    /\ \A a \in DOMAIN old.annotations :
                          a # sveltosClusterClaudieAnnotation
                             => new.annotations[a] = old.annotations[a]
                    /\ OwnersKept(old.ownerReferences, new.ownerReferences, k.name)
                    /\ \A ck \in DOMAIN clusters \ {call'.key} :
                          Has(clusters', ck) /\ clusters'[ck] = clusters[ck]
          /\ call' = Call(k, "create", call'.key, "ok") =>
                /\ clusters'[call'.key].labels = EmptyMap
                /\ \A ck \in DOMAIN clusters :
                      Has(clusters', ck) /\ clusters'[ck] = clusters[ck]]_vars

\* a pass has just updated a SveltosCluster that a user registered: the user's
\* labels, annotation, credential reference and first owner reference are
\* there, next to the annotation and the owner reference the pass added
C17_Witness ==
    \E k \in SecretKeys :
        /\ call = Call(k, "update", call.key, "ok")
        /\ Has(clusters, call.key)
        /\ clusters[call.key].labels = UserLabels
        /\ clusters[call.key].kubeconfigName = "ext"
        /\ Has(clusters[call.key].annotations, "team")
        /\ HasMarker(clusters[call.key])
        /\ Len(clusters[call.key].ownerReferences) = 2
        /\ clusters[call.key].ownerReferences[2].name = k.name

(***************************************************************************)
(* C18                                                                     *)
(***************************************************************************)
\* C18: in a pass whose fetch answered not-found, when the cleanup succeeds -
\* the map has no entry for the key, or the Get of the recorded SveltosCluster
\* answers not-found, or its Delete succeeds - the pass ends there and returns
\* plain success: no error, no requeue.
C18_NotFoundEndsInSuccess ==
    [][\A k \in SecretKeys :
          (/\ sec[k] = Nil
           /\ \/ pc[k] = "clean" /\ PassStep(k) /\ ~Has(SecretToCluster, k)
              \/ pc[k] = "clean_get"
                 /\ call' = Call(k, "get_cluster", call'.key, "notfound")
              \/ pc[k] = "clean_delete"
                 /\ call' = Call(k, "delete", call'.key, "ok"))
          => /\ pc'[k] = "idle"
             /\ result'[k] = "ok"
             /\ queue' = queue
             /\ ~Has(SecretToCluster', k)]_vars

\* a pass for a secret that is gone has just ended in success after the Get
\* of the recorded SveltosCluster answered not-found
C18_Witness ==
    \E k \in SecretKeys :
        /\ call = Call(k, "get_cluster", call.key, "notfound")
        /\ pc[k] = "idle"
        /\ result[k] = "ok"
        /\ k \notin queue
        /\ ~Has(secrets, k)
        /\ ~Has(SecretToCluster, k)

(***************************************************************************)
(* C19                                                                     *)
(***************************************************************************)
\* C19: the cleanup of a pass that treats its notification as a removal (the
\* fetch answered not-found, or the secret has a deletion timestamp) and
\* finds no entry for the key in the map makes no store call and changes
\* neither the store nor the map, and the pass ends there in success: a
\* second delivery of the removal is a no-op.
C19_CleanupWithoutEntryIsNoOp ==
    [][\A k \in SecretKeys :
          (/\ pc[k] = "clean"
           /\ ~Has(SecretToCluster, k)
           /\ PassStep(k))
          => /\ call' = NoCall
             /\ UNCHANGED <<secrets, clusters, SecretToCluster, Mux>>
             /\ pc'[k] = "idle"
             /\ result'[k] = "ok"]_vars

(***************************************************************************)
(* C20                                                                     *)
(***************************************************************************)
\* C20: when the Delete of the background loop fails, nothing else happens
\* to it: the SveltosCluster stays as it is for the next tick to list, no
\* pass and no entry of the map is affected, the loop does not stop and does
\* not repeat the Delete, and it goes on with the next listed item or, after
\* the last one, to the sleep before the next tick.
C20_SweepDeleteFailureOnlyLogged ==
    [][(/\ call'.by = Sweeper
        /\ call'.op = "delete"
        /\ call'.res # "ok")
       => /\ spc = "delete"
          /\ UNCHANGED <<secrets, clusters, SecretToCluster, Mux, queue, pc, result>>
          /\ Running'
          /\ spc' # "delete"
          /\ IF si < Len(items)
             THEN spc' = "item" /\ si' = si + 1 /\ items' = items
             ELSE spc' = "sleep"]_vars

\* the Delete of the first of two listed items has just failed: the
\* SveltosCluster is still stored and the loop is at the second item
C20_Witness ==
    /\ call = Call(Sweeper, "delete", call.key, "error")
    /\ Has(clusters, call.key)
    /\ spc = "item"
    /\ si = 2
    /\ Len(items) = 2
    /\ ObjKey(items[1]) = call.key

(***************************************************************************)
(* C21                                                                     *)
(***************************************************************************)
\* C21: the background loop neither reads nor writes the map: every step of
\* it leaves the map and its mutex as they are, also the Delete of a
\* SveltosCluster that an entry names; whether it turns to the Delete is
\* decided by the answer of the store about the owning secret alone; and the
\* entry left over is dropped by cleanSveltosCluster for that key when its
\* Get of the SveltosCluster answers not-found.
C21_SweeperIgnoresTheMap ==
    [][/\ (call'.by = Sweeper \/ (spc = "item" /\ spc' = "crashed"))
          => UNCHANGED <<SecretToCluster, Mux>>
       /\ (spc = "item" /\ call'.by = Sweeper)
          => (spc' = "delete" <=>
                 /\ call'.res # "error"
                 /\ Has(secrets, call'.key)
                       => secrets[call'.key].deletionTimestamp # 0)
       /\ \A k \in SecretKeys :
             (/\ pc[k] = "clean_get"
              /\ call' = Call(k, "get_cluster", call'.key, "notfound"))
             => /\ call'.key = SecretToCluster[k]
                /\ ~Has(SecretToCluster', k)]_vars

\* the loop has just deleted a SveltosCluster that an entry of the map names
C21_Witness ==
    \E k \in SecretKeys :
        /\ call = Call(Sweeper, "delete", call.key, "ok")
        /\ Has(SecretToCluster, k)
        /\ SecretToCluster[k] = call.key
        /\ ~Has(clusters, call.key)

(***************************************************************************)
(* C22                                                                     *)
(***************************************************************************)
\* the step is the create of a SveltosCluster from absent, with annotation
\* and owner, by the pass for k
CreatedBy(k) ==
    /\ call' = Call(k, "create", call'.key, "ok")
    /\ pc[k] = "create"
    /\ ~Has(clusters, call'.key)
    /\ clusters' = Put(clusters, call'.key, clusters'[call'.key])
    /\ HasMarker(clusters'[call'.key])
    /\ NamesOwner(clusters'[call'.key], k.name)

\* the step is the refresh of annotation and owner of a stored SveltosCluster
\* by the pass for k
RefreshedBy(k) ==
    /\ call' = Call(k, "update", call'.key, "ok")
    /\ pc[k] = "update"
    /\ Has(clusters, call'.key)
    /\ clusters' = Put(clusters, call'.key, clusters'[call'.key])
    /\ HasMarker(clusters'[call'.key])
    /\ NamesOwner(clusters'[call'.key], k.name)

\* the step is the delete of a stored SveltosCluster by the cleanup of the
\* pass for k, or by the background loop
DeletedBy(who) ==
    /\ call' = Call(who, "delete", call'.key, "ok")
    /\ who \in SecretKeys => pc[who] = "clean_delete"
    /\ who = Sweeper => spc = "delete"
    /\ Has(clusters, call'.key)
    /\ clusters' = Del(clusters, call'.key)

\* C22: every change that a pass or the background loop makes to the stored
\* SveltosClusters is a create from absent or a refresh, each with annotation
\* and owner and each by a pass for a secret that has the three labels and no
\* deletion timestamp, or a delete by the cleanup or by the loop; a pass
\* whose fetch answered not-found or returned a secret with a deletion
\* timestamp creates and updates nothing.
C22_OnlyThreeTransitions ==
    [][(clusters' # clusters /\ call'.by \in SecretKeys \cup {Sweeper})
       => \/ \E k \in SecretKeys :
                /\ CreatedBy(k) \/ RefreshedBy(k)
                /\ sec[k] # Nil
                /\ HasAllLabels(sec[k])
                /\ sec[k].deletionTimestamp = 0
          \/ \E who \in SecretKeys \cup {Sweeper} : DeletedBy(who)]_vars

(***************************************************************************)
(* C23                                                                     *)
(***************************************************************************)
\* C23: a Create succeeds only for a key that is absent; the Create of a pass
\* that found the key absent and lost the race to another pass is rejected:
\* the stored SveltosCluster is not overwritten, the pass asks for a requeue
\* and its key stays in the work queue; and a pass whose Get finds the
\* SveltosCluster goes on to the Update.
C23_SecondCreateRejected ==
    [][\A k \in SecretKeys :
          /\ call' = Call(k, "create", call'.key, "ok") => ~Has(clusters, call'.key)
          /\ (/\ pc[k] = "create"
              /\ call'.by = k
              /\ Has(clusters, ObjKey(sc[k])))
             => /\ call'.op = "create"
                /\ call'.key = ObjKey(sc[k])
                /\ call'.res \in {"alreadyexists", "error"}
                /\ clusters' = clusters
                /\ pc'[k] = "idle"
                /\ result'[k] = "requeue"
                /\ k \in queue'
          /\ (/\ pc[k] = "get"
              /\ call' = Call(k, "get_cluster", call'.key, "ok"))
             => pc'[k] = "update"]_vars

\* the Create of a pass has just been rejected: the SveltosCluster that the
\* pass for the other secret created is stored, without this secret as owner
C23_Witness ==
    \E k \in SecretKeys :
        /\ call = Call(k, "create", call.key, "alreadyexists")
        /\ result[k] = "requeue"
        /\ k \in queue
        /\ Has(clusters, call.key)
        /\ ~NamesOwner(clusters[call.key], k.name)
        /\ \E o \in SecretKeys \ {k} :
              clusters[call.key].ownerReferences = SecretOwner(o.name)

(***************************************************************************)
(* C24                                                                     *)
(***************************************************************************)
\* the SveltosCluster is one that a user registered without the annotation:
\* it has the user's credential reference and the user's annotation, which a
\* pass neither writes nor removes
RegisteredByUser(c) ==
    /\ c.kubeconfigName = "ext"
    /\ Has(c.annotations, "team")

\* C24: no step of a pass or of the background loop removes a SveltosCluster
\* that a user registered without the annotation.
C24_ForeignNeverDeleted ==
    [][\A ck \in DOMAIN clusters :
          (/\ RegisteredByUser(clusters[ck])
           /\ call'.by \in SecretKeys \cup {Sweeper})
          => Has(clusters', ck)]_vars

(***************************************************************************)
(* C25                                                                     *)
(***************************************************************************)
\* C25: the cleanup of a pass deletes a SveltosCluster only when no other
\* secret that is present, has the three labels and no deletion timestamp,
\* and was reconciled (the map records it) names the same SveltosCluster.
C25_SharedClusterKept ==
    [][\A k \in SecretKeys :
          (/\ pc[k] = "clean_delete"
           /\ call' = Call(k, "delete", call'.key, "ok"))
          => ~\E o \in SecretKeys \ {k} :
                 /\ LiveEligible(o)
                 /\ TargetOf(secrets[o]) = call'.key
                 /\ Has(SecretToCluster, o)
                 /\ SecretToCluster[o] = call'.key
                 /\ NamesOwner(clusters[call'.key], o.name)]_vars

(***************************************************************************)
(* C26                                                                     *)
(***************************************************************************)
\* C26: when a Delete of the background loop removes a SveltosCluster, the
\* secret the loop looked up for it (its first owner of kind Secret) is, at
\* that moment, absent from the store or has a deletion timestamp.
C26_OwnerGoneAtDelete ==
    [][(/\ spc = "delete"
        /\ call' = Call(Sweeper, "delete", ObjKey(items[si]), "ok"))
       => LET owner == getClaudieSecret(items[si])
          IN  \/ ~Has(secrets, owner)
              \/ secrets[owner].deletionTimestamp # 0]_vars

(***************************************************************************)
(* C27                                                                     *)
(***************************************************************************)
\* the secret whose pass created the SveltosCluster c: createSveltosCluster
\* sets Spec.KubeconfigName to the name of the secret on the create branch
\* only, and the update branch leaves it alone
CreatorOf(c) == NamespacedName(c.namespace, c.kubeconfigName)

\* C27: starting from a store without SveltosClusters and without a restart,
\* every SveltosCluster in the store (each one was created by a pass of this
\* process, and no cleanup has deleted it) is named by the map entry of the
\* secret whose pass created it.
C27_CreatedHasEntry ==
    \A ck \in DOMAIN clusters :
        /\ Has(SecretToCluster, CreatorOf(clusters[ck]))
        /\ SecretToCluster[CreatorOf(clusters[ck])] = ck

(***************************************************************************)
(* C28                                                                     *)
(***************************************************************************)
\* the step is the map write of the pass for k: the secret the pass fetched
\* has the three labels, and the entry for k, and no other, becomes the
\* namespace of the secret with the value of its cluster-name label
EntryWrittenBy(k) ==
    /\ pc[k] = "map"
    /\ pc'[k] = "get"
    /\ shouldReconcileSecret(sec[k])
    /\ SecretToCluster' = Put(SecretToCluster, k, TargetOf(sec[k]))

\* the step is a step of cleanSveltosCluster of the pass for k that removes
\* the entry for k, and no other
EntryRemovedBy(k) ==
    /\ pc[k] \in {"clean", "clean_get", "clean_delete"}
    /\ Has(SecretToCluster, k)
    /\ SecretToCluster' = Del(SecretToCluster, k)

\* the step is the start of a new process: no pass is running, none has a
\* result and the map is empty
ProcessStart ==
    /\ pc' = [k \in SecretKeys |-> "idle"]
    /\ result' = [k \in SecretKeys |-> "none"]
    /\ SecretToCluster' = EmptyMap

\* C28: every entry k -> v of the map has the namespace of k, and after the
\* map write of a pass for k the entry for k is the namespace and the value
\* of the cluster-name label of the secret that pass fetched; within one
\* process the map changes only by the map write of a pass for k whose secret
\* has the three labels (entry k added or overwritten) or by the cleanup of a
\* pass for k (entry k removed).
C28_EntriesFollowPasses ==
    /\ [](\A k \in DOMAIN SecretToCluster :
             /\ k \in SecretKeys
             /\ SecretToCluster[k].namespace = k.namespace
             /\ SecretToCluster[k].name \in ClusterNames)
    /\ [](\A k \in SecretKeys :
             pc[k] \in {"get", "create", "update"}
                => /\ Has(SecretToCluster, k)
                   /\ SecretToCluster[k] = TargetOf(sec[k]))
    /\ [][(SecretToCluster' # SecretToCluster /\ ~ProcessStart)
            => \E k \in SecretKeys : EntryWrittenBy(k) \/ EntryRemovedBy(k)]_vars

\* a pass has overwritten the entry of its secret with the label value it
\* fetched, and the secret in the store has since been given another value
C28_Witness ==
    \E k \in SecretKeys :
        /\ pc[k] = "get"
        /\ Has(SecretToCluster, k)
        /\ SecretToCluster[k] = TargetOf(sec[k])
        /\ LiveEligible(k)
        /\ TargetOf(secrets[k]) # SecretToCluster[k]
        /\ result[k] = "none"

(***************************************************************************)
(* C29                                                                     *)
(***************************************************************************)
\* The program started on a store without SveltosClusters, with every store
\* call free to fail, and every worker that can take a step infinitely
\* often taking one (sync.Mutex hands the lock to a waiter once it has waited
\* long enough).
MutexInit ==
    /\ \E present \in SUBSET SecretKeys :
         \E ls \in [present -> UNION {SecretLabelSets(k) : k \in SecretKeys}] :
            /\ \A k \in present : ls[k] \in SecretLabelSets(k)
            /\ secrets = [k \in present |-> Secret(k, ls[k], 0)]
    /\ clusters = EmptyMap
    /\ Started
    /\ flaky = TRUE

MutexSpec ==
    /\ MutexInit
    /\ [][LiveNext]_vars
    /\ \A k \in SecretKeys : SF_vars(Reconcile(k))

\* the worker for k is between the Lock and the Unlock of cleanSveltosCluster
InCleanup(k) == pc[k] \in {"clean_get", "clean_delete"}

\* the worker for k is at the Lock of cleanSveltosCluster or of
\* updateSecretToClusterMap
AtLock(k) == pc[k] \in {"clean", "map"}

\* C29: the mutex is held by a worker exactly while that worker is between
\* the Lock and the Unlock of cleanSveltosCluster, so no two workers are there
\* together and a worker that has left on any path (miss, not found, Get
\* failed, Delete failed, deleted) no longer holds it; and a worker at a Lock
\* always gets past it.
C29_MutexExclusiveAndReleased ==
    /\ [](\A k \in SecretKeys : InCleanup(k) <=> Mux = k)
    /\ [](\A k, o \in SecretKeys : (InCleanup(k) /\ InCleanup(o)) => k = o)
    /\ \A k \in SecretKeys : AtLock(k) ~> ~AtLock(k)

\* one worker holds the mutex inside cleanSveltosCluster while another worker
\* is at a Lock
C29_Witness ==
    \E k, o \in SecretKeys :
        /\ k # o
        /\ Mux = k
        /\ InCleanup(k)
        /\ AtLock(o)

====
